---- MODULE Spec2Model ----
(***************************************************************************)
(* OpenVideoAnnotator: the annotation workflow of App.tsx (the playback    *)
(* coordinator and the annotation collection) and of AnnotationPanel (the  *)
(* draft of the composing session and the inline edit form).               *)
(*                                                                         *)
(* Strings are sequences of one-character strings, so that trim() is       *)
(* computed and not assumed.  An optional value (undefined / null in the   *)
(* source) is the empty sequence, a present value v is <<v>>.              *)
(*                                                                         *)
(* Specifications:                                                         *)
(*   Spec     the application driven through its user interface, one       *)
(*            handler per step.  The user types the URL, the draft         *)
(*            question and the edited question; type, requirements and     *)
(*            duration keep the values the panel starts with.  The players *)
(*            are left aside: their callbacks arrive as onTimeUpdate and   *)
(*            onPauseChange with any value.  Sources are loaded by URL;    *)
(*            the uploads of video files are in the specifications below.  *)
(*   SpecOps  the handlers applied once to arguments drawn from bounded    *)
(*            sets (every field of the draft and of the edit form, ids     *)
(*            absent from the collection, an omitted currentTime prop),    *)
(*            from collections the application can hold.                   *)
(*   SpecDraft  the application with question, requirements and duration   *)
(*            of the draft typed.                                          *)
(*   SpecLoad  the application with sources loaded at any moment of a      *)
(*            session: the player's reports and three draft inputs.        *)
(*   SpecSubtitles  the subtitle uploads and their file reads.             *)
(*   SpecVideoPlayer  the application on direct sources with VideoPlayer:  *)
(*            its state, its effects and the <video> element (playing or   *)
(*            not, a play() promise outstanding or not).                   *)
(*   SpecYouTubePlayer  the application on YouTube links with              *)
(*            YouTubePlayer: its state, refs and effects, the loading of   *)
(*            the IFrame API, the players made and the intervals set.  A   *)
(*            destroyed player delivers no event, a cleared interval does  *)
(*            not fire, and a method of a player that is not ready throws. *)
(* In the two player specifications a step is a handler together with the  *)
(* render it causes.  After a click or an input the effects of that render *)
(* run in the same step.  After a callback of the IFrame API or of an      *)
(* interval they are left waiting: they run in a step of their own or at   *)
(* the start of the next step that renders.                                *)
(***************************************************************************)
EXTENDS Integers, Sequences, FiniteSets

\* ------------------------------------------------------------------ bounds
MaxAnnotations == 2   \* records the collection may hold
MaxClock == 1         \* readings of Date.now() are 0..MaxClock
MaxUploads == 3       \* subtitle files chosen in one behaviour
MaxPlayers == 2       \* YT.Player objects made in one behaviour
MaxVideoFiles == 2    \* video files uploaded in one behaviour

\* ------------------------------------------------------- program constants
DefaultFeedbackDuration == 6

\* --------------------------------------------------------------- input sets
Times == {0, 1}
AnnotationTypes == {"VLM", "LLM"}
Questions == { <<>>, <<" ">>, <<"a">>, <<"\t", "a">> }
RequirementsTexts == { <<>>, <<"r">> }
Durations == {DefaultFeedbackDuration, 3}
InputUrls == { <<" ">>, <<"u">> }

None == << >>
Some(v) == <<v>>
NoId == << >>
\* the marker of a step that is no commit, start, save or delete
Other == [op |-> "-"]

\* ------------------------------------------------------------ pure helpers
\* The white space of String.prototype.trim and of \s in a pattern: tab,
\* line feed, vertical tab, form feed, carriage return, space, no-break
\* space, the byte order mark, the space separators and the two line
\* separators of Unicode.  A character with no escape is written by its
\* code point.
WhiteSpace ==
    {"\t", "\n", "U+000B", "\f", "\r", " ", "U+00A0", "U+1680", "U+2000",
     "U+2001", "U+2002", "U+2003", "U+2004", "U+2005", "U+2006", "U+2007",
     "U+2008", "U+2009", "U+200A", "U+2028", "U+2029", "U+202F", "U+205F",
     "U+3000", "U+FEFF"}

IsWhiteSpace(c) == c \in WhiteSpace

RECURSIVE TrimStart(_)
TrimStart(s) ==
    IF s = <<>> THEN s
    ELSE IF IsWhiteSpace(Head(s)) THEN TrimStart(Tail(s)) ELSE s

RECURSIVE TrimEnd(_)
TrimEnd(s) ==
    IF s = <<>> THEN s
    ELSE IF IsWhiteSpace(s[Len(s)]) THEN TrimEnd(SubSeq(s, 1, Len(s) - 1)) ELSE s

\* String.prototype.trim
Trim(s) == TrimEnd(TrimStart(s))

\* a string used as a condition: the empty string is falsy
Truthy(s) == s # <<>>

\* Number.prototype.toString of a non-negative integer: its decimal digits
RECURSIVE toString(_)
toString(n) == IF n < 10 THEN <<n>> ELSE toString(n \div 10) \o <<n % 10>>

RECURSIVE Filter(_, _)
Filter(s, id) ==
    IF s = <<>> THEN <<>>
    ELSE IF Head(s).id # id THEN <<Head(s)>> \o Filter(Tail(s), id)
         ELSE Filter(Tail(s), id)

HasId(anns, id) == \E k \in 1..Len(anns) : anns[k].id = id

Last(s) == s[Len(s)]

\* ------------------------------------------------------------------- state
VARIABLES
    videoUrl,               \* App: the loaded source, "" before the first load
    inputUrl,               \* App: the text of the URL box
    currentTime,            \* App: the time last reported through onTimeUpdate
    isPaused,               \* App: the coordinator's paused flag
    isAnnotating,           \* App: FALSE = Idle, TRUE = Composing
    annotations,            \* App: the annotation collection
    annotationType,         \* AnnotationPanel: draft type
    annotationQuestion,     \* AnnotationPanel: draft question
    annotationRequirements, \* AnnotationPanel: draft requirements
    feedbackDuration,       \* AnnotationPanel: draft feedback duration
    editingId,              \* AnnotationPanel: id under edit, NoId for null
    editForm,               \* AnnotationPanel: None for null, else <<form>>
    now,                    \* the environment's clock, what Date.now() returns
    ev,                     \* the last step: the handler and what it was given;
                            \* Other for the steps of Spec that are not a
                            \* commit, a start, a save or a delete
    videoType,              \* App: "direct" or "youtube"
    youtubeVideoId,         \* App: the id given to YouTubePlayer
    videoFiles,             \* the video files uploaded so far, a count
    subtitleUrl,            \* App: the object URL of the subtitle track
    subtitleFileName,       \* App: the name shown as loaded
    chosen,                 \* the subtitle files chosen so far, in order
    reads,                  \* the file.text() promises not yet settled
    rejected,               \* the file.text() promises settled by a rejection
    vp,                     \* VideoPlayer: currentTime, duration, hasError
    video,                  \* the <video> element behind videoRef
    yt,                     \* YouTubePlayer: its state and its refs
    win                     \* window: the IFrame API, its players and timers

appVars == <<videoUrl, inputUrl, currentTime, isPaused, isAnnotating, annotations>>
draftVars == <<annotationType, annotationQuestion, annotationRequirements, feedbackDuration>>
editVars == <<editingId, editForm>>
sourceVars == <<videoType, youtubeVideoId, videoFiles>>
subtitleVars == <<subtitleUrl, subtitleFileName, chosen, reads, rejected>>
playerVars == <<vp, video, yt, win>>
extVars == <<sourceVars, subtitleVars, playerVars>>
vars == <<appVars, draftVars, editVars, now, ev, extVars>>

\* --------------------------------------------------- App.tsx, the handlers
\* mutant: || instead of ??, an explicit timestamp 0 falls back to currentTime
ManualOrCurrentFalsy(manualTimestamp, cur) ==
    IF manualTimestamp = None \/ manualTimestamp[1] = 0 THEN cur
    ELSE manualTimestamp[1]

\* line 109: manualTimestamp ?? currentTime
ManualOrCurrent(manualTimestamp, cur) ==
    IF manualTimestamp = None THEN cur ELSE manualTimestamp[1]

\* line 108: Date.now().toString()
NewId(clock) == toString(clock)

\* mutant: the new record is put in front, [newAnnotation, ...annotations]
handleDoneAnnotationPrepend(anns, cur, clock, type, question, requirements, duration, manualTimestamp) ==
    << [id |-> NewId(clock),
        timestamp |-> ManualOrCurrent(manualTimestamp, cur),
        type |-> type,
        question |-> question,
        requirements |-> requirements,
        feedbackDuration |-> duration] >> \o anns

\* lines 107-115: the collection handleDoneAnnotation stores
handleDoneAnnotation(anns, cur, clock, type, question, requirements, duration, manualTimestamp) ==
    Append(anns, [id |-> NewId(clock),
                  timestamp |-> ManualOrCurrent(manualTimestamp, cur),
                  type |-> type,
                  question |-> question,
                  requirements |-> requirements,
                  feedbackDuration |-> duration])

\* mutant: only the first matching record is removed (findIndex and splice)
RECURSIVE handleDeleteFirstMatch(_, _)
handleDeleteFirstMatch(anns, id) ==
    IF anns = <<>> THEN <<>>
    ELSE IF Head(anns).id = id THEN Tail(anns)
         ELSE <<Head(anns)>> \o handleDeleteFirstMatch(Tail(anns), id)

\* line 121: annotations.filter(ann => ann.id !== id)
handleDeleteAnnotation(anns, id) == Filter(anns, id)

\* mutant: the question alone is taken over, {...ann, question: updated.question}
handleUpdateAnnotationQuestionOnly(anns, id, updated) ==
    [k \in 1..Len(anns) |->
        IF anns[k].id = id
        THEN [anns[k] EXCEPT !.question = updated.question]
        ELSE anns[k]]

\* mutant: an id that matches no record is inserted (an upsert)
handleUpdateAnnotationUpsert(anns, id, updated) ==
    IF HasId(anns, id)
    THEN [k \in 1..Len(anns) |->
            IF anns[k].id = id
            THEN [id |-> id,
                  timestamp |-> updated.timestamp,
                  type |-> updated.type,
                  question |-> updated.question,
                  requirements |-> updated.requirements,
                  feedbackDuration |-> updated.feedbackDuration]
            ELSE anns[k]]
    ELSE Append(anns, [id |-> id,
                       timestamp |-> updated.timestamp,
                       type |-> updated.type,
                       question |-> updated.question,
                       requirements |-> updated.requirements,
                       feedbackDuration |-> updated.feedbackDuration])

\* lines 125-127: annotations.map(ann => ann.id === id ? {...updated, id} : ann)
handleUpdateAnnotation(anns, id, updated) ==
    [k \in 1..Len(anns) |->
        IF anns[k].id = id
        THEN [id |-> id,
              timestamp |-> updated.timestamp,
              type |-> updated.type,
              question |-> updated.question,
              requirements |-> updated.requirements,
              feedbackDuration |-> updated.feedbackDuration]
        ELSE anns[k]]

\* mutant: the records are exported whole, annotations: annotations
jsonDataWithId(url, anns) ==
    [videoUrl |-> url, totalAnnotations |-> Len(anns), annotations |-> anns]

\* lines 131-135: the document handleGenerateJSON serialises; each record
\* goes through ({ id, ...rest }) => rest
jsonData(url, anns) ==
    [videoUrl |-> url,
     totalAnnotations |-> Len(anns),
     annotations |-> [k \in 1..Len(anns) |->
                        [f \in DOMAIN anns[k] \ {"id"} |-> anns[k][f]]]]

\* mutant: the question is tested without trim()
CanCommitUntrimmed(question) == Truthy(question)

\* panel line 331: if (annotationQuestion.trim())
CanCommit(question) == Truthy(Trim(question))

\* mutant: the edited question is tested without trim()
CanSaveUntrimmed(form) == form # None /\ Truthy(form[1].question)

\* panel line 350: if (editForm && editForm.question.trim())
CanSave(form) == form # None /\ Truthy(Trim(form[1].question))

\* ------------------------------------------- what the rendered tree offers
\* App.tsx line 254: the players and the panel exist once a source is loaded
Mounted == Truthy(videoUrl)

\* AnnotationPanel line 483: the record is rendered as the edit form
InEditMode(annotation) == editingId = annotation.id /\ editForm # None

\* lines 341-346: the form handleEdit opens
FormOf(annotation) ==
    [type |-> annotation.type,
     question |-> annotation.question,
     requirements |-> annotation.requirements,
     feedbackDuration |-> annotation.feedbackDuration]

\* ------------------------------------------- App.tsx, the kind of a source
\* line 10: the three alternatives of the non-capturing group
WatchMarker ==
    <<"y", "o", "u", "t", "u", "b", "e", ".", "c", "o", "m", "/",
      "w", "a", "t", "c", "h", "?", "v", "=">>
ShortMarker == <<"y", "o", "u", "t", "u", ".", "b", "e", "/">>
EmbedMarker ==
    <<"y", "o", "u", "t", "u", "b", "e", ".", "c", "o", "m", "/",
      "e", "m", "b", "e", "d", "/">>
YouTubeMarkers == {WatchMarker, ShortMarker, EmbedMarker}

\* line 11: the characters of [a-zA-Z0-9_-]
IdChars ==
    {"a", "b", "c", "d", "e", "f", "g", "h", "i", "j", "k", "l", "m",
     "n", "o", "p", "q", "r", "s", "t", "u", "v", "w", "x", "y", "z",
     "A", "B", "C", "D", "E", "F", "G", "H", "I", "J", "K", "L", "M",
     "N", "O", "P", "Q", "R", "S", "T", "U", "V", "W", "X", "Y", "Z",
     "0", "1", "2", "3", "4", "5", "6", "7", "8", "9", "_", "-"}

\* line 10: [^&\s?]
IdStop(c) == c \in {"&", "?"} \/ IsWhiteSpace(c)

\* line 10: the greedy group ([^&\s?]+) read from position j
RECURSIVE IdRun(_, _)
IdRun(url, j) ==
    IF j > Len(url) \/ IdStop(url[j]) THEN <<>>
    ELSE <<url[j]>> \o IdRun(url, j + 1)

\* the marker m stands in url from position i on
StartsAt(url, i, m) ==
    /\ i + Len(m) - 1 <= Len(url)
    /\ SubSeq(url, i, i + Len(m) - 1) = m

\* the positions where the first pattern matches: a marker followed by at
\* least one character of the group
MarkerMatches(url) ==
    { i \in 1..Len(url) :
        \E m \in YouTubeMarkers : StartsAt(url, i, m) /\ IdRun(url, i + Len(m)) # <<>> }

\* lines 8-21: None for null; the first pattern matches at the leftmost
\* position, the second takes a whole URL of 11 characters of the class
extractYouTubeVideoId(url) ==
    IF MarkerMatches(url) # {}
    THEN LET i == CHOOSE i \in MarkerMatches(url) :
                      \A j \in MarkerMatches(url) : i <= j
             m == CHOOSE m \in YouTubeMarkers : StartsAt(url, i, m)
         IN  Some(IdRun(url, i + Len(m)))
    ELSE IF Len(url) = 11 /\ \A k \in 1..Len(url) : url[k] \in IdChars
         THEN Some(url)
         ELSE None

\* ------------------------------------------- the players as constructed
\* VideoPlayer.tsx lines 14-15, 19
VideoPlayerInit == [currentTime |-> 0, duration |-> 0, hasError |-> FALSE]

\* the media element before anything is loaded: not playing, no play()
\* promise outstanding
VideoElementInit == [playing |-> FALSE, promise |-> FALSE]

\* YouTubePlayer.tsx lines 19-24; 0 for null in the two refs.  pendingEffect
\* names the callback after whose render the isPaused effect (lines 120-132)
\* still waits to run, "none" when no effect waits.
YouTubePlayerInit ==
    [isReady |-> FALSE, currentTime |-> 0, hasError |-> FALSE,
     playerRef |-> 0, timeUpdateIntervalRef |-> 0, pendingEffect |-> "none"]

\* window before the IFrame API script is asked for: YT undefined, no
\* callback set, no player made, no interval set; calls holds, in order, the
\* playVideo and pauseVideo calls the last step made on a player: the
\* method, whether it threw, and by which render the effect was left to run
\* ("handler" for a handler of App, else the callback of the player)
WindowInit ==
    [YT |-> "undefined", onYouTubeIframeAPIReady |-> None,
     players |-> <<>>, intervals |-> <<>>, calls |-> <<>>]

\* ------------------------------------------------------------------- Init
Init ==
    /\ videoUrl = <<>>
    /\ inputUrl = <<>>
    /\ currentTime = 0
    /\ isPaused = TRUE
    /\ isAnnotating = FALSE
    /\ annotations = <<>>
    /\ annotationType = "VLM"
    /\ annotationQuestion = <<>>
    /\ annotationRequirements = <<>>
    /\ feedbackDuration = DefaultFeedbackDuration
    /\ editingId = NoId
    /\ editForm = None
    /\ now = 0
    /\ ev = Other
    /\ videoType = "direct"
    /\ youtubeVideoId = <<>>
    /\ videoFiles = 0
    /\ subtitleUrl = <<>>
    /\ subtitleFileName = <<>>
    /\ chosen = <<>>
    /\ reads = {}
    /\ rejected = {}
    /\ vp = VideoPlayerInit
    /\ video = VideoElementInit
    /\ yt = YouTubePlayerInit
    /\ win = WindowInit

\* ------------------------------------------------------ environment steps
\* the wall clock advances between two handlers, or does not
Tick ==
    /\ now < MaxClock
    /\ now' = now + 1
    /\ UNCHANGED extVars
    /\ ev' = Other
    /\ UNCHANGED <<appVars, draftVars, editVars>>

\* App.tsx line 192
setInputUrl(u) ==
    /\ inputUrl' = u
    /\ UNCHANGED extVars
    /\ ev' = Other
    /\ UNCHANGED <<videoUrl, currentTime, isPaused, isAnnotating, annotations,
                   draftVars, editVars, now>>

\* mutant: the load binds the new source and keeps the collection
handleLoadVideoKeepsAnnotations ==
    /\ IF Truthy(Trim(inputUrl))
       THEN /\ videoUrl' = inputUrl
            /\ IF extractYouTubeVideoId(inputUrl) # None
               THEN /\ videoType' = "youtube"
                    /\ youtubeVideoId' = extractYouTubeVideoId(inputUrl)[1]
               ELSE /\ videoType' = "direct"
                    /\ UNCHANGED youtubeVideoId
            /\ UNCHANGED videoFiles
            /\ isPaused' = TRUE
            /\ UNCHANGED annotations
       ELSE UNCHANGED <<videoUrl, sourceVars, annotations, isPaused>>
    /\ UNCHANGED subtitleVars
    /\ UNCHANGED <<inputUrl, currentTime, isAnnotating, draftVars, editVars, now>>

\* App.tsx lines 36-54: what handleLoadVideo sets in App
handleLoadVideoCore ==
    /\ IF Truthy(Trim(inputUrl))
       THEN /\ videoUrl' = inputUrl
            /\ IF extractYouTubeVideoId(inputUrl) # None
               THEN /\ videoType' = "youtube"
                    /\ youtubeVideoId' = extractYouTubeVideoId(inputUrl)[1]
               ELSE /\ videoType' = "direct"
                    /\ UNCHANGED youtubeVideoId
            /\ UNCHANGED videoFiles
            /\ annotations' = <<>>
            /\ isPaused' = TRUE
       ELSE UNCHANGED <<videoUrl, sourceVars, annotations, isPaused>>
    /\ UNCHANGED subtitleVars
    /\ UNCHANGED <<inputUrl, currentTime, isAnnotating, draftVars, editVars, now>>

\* App.tsx lines 36-54, the players left aside: their callbacks are the
\* steps onTimeUpdate and onPauseChange
handleLoadVideo ==
    /\ handleLoadVideoCore
    /\ UNCHANGED playerVars
    /\ ev' = Other

\* line 59: the object URL made for the n-th uploaded video file, a new one
\* for every call; the v keeps it apart from those of the subtitle files
createVideoObjectURL(n) == <<"b", "l", "o", "b", ":", "v">> \o toString(n)

\* App.tsx lines 56-67, with a file chosen: what handleFileUpload sets in App
handleFileUploadCore ==
    /\ videoFiles < MaxVideoFiles
    /\ videoFiles' = videoFiles + 1
    /\ videoUrl' = createVideoObjectURL(videoFiles + 1)
    /\ videoType' = "direct"
    /\ inputUrl' = <<>>
    /\ annotations' = <<>>
    /\ isPaused' = TRUE
    /\ UNCHANGED <<youtubeVideoId, subtitleVars>>
    /\ UNCHANGED <<currentTime, isAnnotating, draftVars, editVars, now>>

\* App.tsx lines 56-67, the players left aside
handleFileUpload ==
    /\ handleFileUploadCore
    /\ UNCHANGED playerVars
    /\ ev' = Other

\* onTimeUpdate={setCurrentTime}: App.tsx lines 261, 268
onTimeUpdate(t) ==
    /\ Mounted
    /\ currentTime' = t
    /\ UNCHANGED extVars
    /\ ev' = Other
    /\ UNCHANGED <<videoUrl, inputUrl, isPaused, isAnnotating, annotations,
                   draftVars, editVars, now>>

\* onPauseChange={setIsPaused}: App.tsx lines 263, 270
onPauseChange(p) ==
    /\ Mounted
    /\ isPaused' = p
    /\ UNCHANGED extVars
    /\ ev' = Other
    /\ UNCHANGED <<videoUrl, inputUrl, currentTime, isAnnotating, annotations,
                   draftVars, editVars, now>>

\* ------------------------------------------------- the composing session
\* mutant: the session is opened and the paused flag is left as it is
handleStartAnnotationNoPause ==
    /\ Mounted
    /\ ~isAnnotating
    /\ isAnnotating' = TRUE
    /\ UNCHANGED extVars
    /\ ev' = [op |-> "handleStartAnnotation", wasPaused |-> isPaused]
    /\ UNCHANGED <<videoUrl, inputUrl, currentTime, isPaused, annotations,
                   draftVars, editVars, now>>

\* mutant: the START button is rendered in both session states
handleStartAnnotationAnyState ==
    /\ Mounted
    /\ isAnnotating' = TRUE
    /\ isPaused' = TRUE
    /\ UNCHANGED extVars
    /\ ev' = [op |-> "handleStartAnnotation", wasPaused |-> isPaused]
    /\ UNCHANGED <<videoUrl, inputUrl, currentTime, annotations,
                   draftVars, editVars, now>>

\* App.tsx lines 101-104, behind the START button (panel lines 450-456):
\* what the handler sets in App
handleStartAnnotationCore ==
    /\ Mounted
    /\ ~isAnnotating
    /\ isAnnotating' = TRUE
    /\ isPaused' = TRUE
    /\ UNCHANGED <<sourceVars, subtitleVars>>
    /\ ev' = [op |-> "handleStartAnnotation", wasPaused |-> isPaused]
    /\ UNCHANGED <<videoUrl, inputUrl, currentTime, annotations,
                   draftVars, editVars, now>>

\* App.tsx lines 101-104, the players left aside
handleStartAnnotation ==
    /\ handleStartAnnotationCore
    /\ UNCHANGED playerVars

\* panel lines 382, 393: the type buttons, disabled while annotating
setAnnotationType(t) ==
    /\ Mounted
    /\ ~isAnnotating
    /\ annotationType' = t
    /\ UNCHANGED extVars
    /\ ev' = Other
    /\ UNCHANGED <<appVars, annotationQuestion, annotationRequirements,
                   feedbackDuration, editVars, now>>

\* panel line 414, disabled unless annotating
setAnnotationQuestion(q) ==
    /\ Mounted
    /\ isAnnotating
    /\ annotationQuestion' = q
    /\ UNCHANGED extVars
    /\ ev' = Other
    /\ UNCHANGED <<appVars, annotationType, annotationRequirements,
                   feedbackDuration, editVars, now>>

\* panel line 424, disabled unless annotating
setAnnotationRequirements(r) ==
    /\ Mounted
    /\ isAnnotating
    /\ annotationRequirements' = r
    /\ UNCHANGED extVars
    /\ ev' = Other
    /\ UNCHANGED <<appVars, annotationType, annotationQuestion,
                   feedbackDuration, editVars, now>>

\* panel line 441, disabled unless annotating
setFeedbackDuration(d) ==
    /\ Mounted
    /\ isAnnotating
    /\ feedbackDuration' = d
    /\ UNCHANGED extVars
    /\ ev' = Other
    /\ UNCHANGED <<appVars, annotationType, annotationQuestion,
                   annotationRequirements, editVars, now>>

\* mutant: an accepted commit leaves the draft as it was typed
handleDoneKeepsDraft(type, question, requirements, duration, currentTimeProp) ==
    /\ IF CanCommit(question)
       THEN /\ annotations' = handleDoneAnnotation(annotations, currentTime, now,
                                  type, question, requirements, duration,
                                  currentTimeProp)
            /\ isAnnotating' = FALSE
            /\ isPaused' = FALSE
            /\ UNCHANGED <<annotationQuestion, annotationRequirements,
                           feedbackDuration>>
       ELSE UNCHANGED <<annotations, isAnnotating, isPaused, annotationQuestion,
                        annotationRequirements, feedbackDuration>>
    /\ UNCHANGED extVars
    /\ ev' = [op |-> "handleDone", question |-> question,
               currentTimeProp |-> currentTimeProp]
    /\ UNCHANGED <<videoUrl, inputUrl, currentTime, annotationType, editVars, now>>

\* panel lines 330-337 with App.tsx lines 106-118: handleDone on the draft
\* (type, question, requirements, duration) and the currentTime prop, what it
\* sets in the panel and in App
handleDoneCore(type, question, requirements, duration, currentTimeProp) ==
    /\ IF CanCommit(question)
       THEN /\ annotations' = handleDoneAnnotation(annotations, currentTime, now,
                                  type, question, requirements, duration,
                                  currentTimeProp)
            /\ isAnnotating' = FALSE
            /\ isPaused' = FALSE
            /\ annotationQuestion' = <<>>
            /\ annotationRequirements' = <<>>
            /\ feedbackDuration' = DefaultFeedbackDuration
       ELSE UNCHANGED <<annotations, isAnnotating, isPaused, annotationQuestion,
                        annotationRequirements, feedbackDuration>>
    /\ UNCHANGED <<sourceVars, subtitleVars>>
    /\ ev' = [op |-> "handleDone", question |-> question,
               currentTimeProp |-> currentTimeProp]
    /\ UNCHANGED <<videoUrl, inputUrl, currentTime, annotationType, editVars, now>>

\* panel lines 330-337 with App.tsx lines 106-118, the players left aside
handleDone(type, question, requirements, duration, currentTimeProp) ==
    /\ handleDoneCore(type, question, requirements, duration, currentTimeProp)
    /\ UNCHANGED playerVars

\* the DONE button (panel lines 458-464); App.tsx line 286 passes currentTime.
\* The button is disabled on a blank question (line 460) and handleDone tests
\* the question again (line 331): the step runs the handler on any draft.
ClickDone ==
    /\ Mounted
    /\ isAnnotating
    /\ Len(annotations) < MaxAnnotations
    /\ handleDone(annotationType, annotationQuestion, annotationRequirements,
                  feedbackDuration, Some(currentTime))

\* ------------------------------------------------------ the inline editor
\* panel lines 339-347, behind the Edit button of a record in view mode
handleEdit(annotation) ==
    /\ editingId' = annotation.id
    /\ editForm' = Some(FormOf(annotation))
    /\ UNCHANGED extVars
    /\ ev' = Other
    /\ UNCHANGED <<appVars, draftVars, now>>

ClickEdit ==
    /\ Mounted
    /\ \E k \in 1..Len(annotations) :
          /\ ~InEditMode(annotations[k])
          /\ handleEdit(annotations[k])

\* panel lines 488, 498, 512, 520, 531: setEditForm({...editForm, field: v})
setEditForm(field, v) ==
    /\ editForm' = Some([editForm[1] EXCEPT ![field] = v])
    /\ UNCHANGED extVars
    /\ ev' = Other
    /\ UNCHANGED <<appVars, draftVars, editingId, now>>

\* the inputs of the edit form exist while some record is rendered in edit mode
ChangeEditForm ==
    /\ Mounted
    /\ \E k \in 1..Len(annotations) : InEditMode(annotations[k])
    /\ \E q \in Questions : setEditForm("question", q)

\* panel lines 349-361 with App.tsx lines 124-128: handleSaveEdit of the
\* rendered record `annotation`, with the edit form `form` (None for null)
handleSaveEdit(annotation, form) ==
    /\ IF CanSave(form)
       THEN /\ annotations' = handleUpdateAnnotation(annotations, annotation.id,
                                  [timestamp |-> annotation.timestamp,
                                   type |-> form[1].type,
                                   question |-> form[1].question,
                                   requirements |-> form[1].requirements,
                                   feedbackDuration |-> form[1].feedbackDuration])
            /\ editingId' = NoId
            /\ editForm' = None
       ELSE UNCHANGED <<annotations, editingId, editForm>>
    /\ UNCHANGED extVars
    /\ ev' = [op |-> "handleSaveEdit", id |-> annotation.id, form |-> form,
               present |-> HasId(annotations, annotation.id)]
    /\ UNCHANGED <<videoUrl, inputUrl, currentTime, isPaused, isAnnotating,
                   draftVars, now>>

\* the Save button of a record in edit mode (panel lines 543-550); disabled
\* on a blank question (line 545), the test handleSaveEdit repeats (line 350)
ClickSave ==
    /\ Mounted
    /\ \E k \in 1..Len(annotations) :
          /\ InEditMode(annotations[k])
          /\ handleSaveEdit(annotations[k], editForm)

\* panel lines 363-366, behind the Cancel button of a record in edit mode
handleCancelEdit ==
    /\ Mounted
    /\ \E k \in 1..Len(annotations) : InEditMode(annotations[k])
    /\ editingId' = NoId
    /\ editForm' = None
    /\ UNCHANGED extVars
    /\ ev' = Other
    /\ UNCHANGED <<appVars, draftVars, now>>

\* App.tsx lines 120-122
DeleteAnnotation(id) ==
    /\ annotations' = handleDeleteAnnotation(annotations, id)
    /\ UNCHANGED extVars
    /\ ev' = [op |-> "handleDeleteAnnotation", id |-> id,
               present |-> HasId(annotations, id)]
    /\ UNCHANGED <<videoUrl, inputUrl, currentTime, isPaused, isAnnotating,
                   draftVars, editVars, now>>

\* the Delete button of a record in view mode (panel lines 588-594)
ClickDelete ==
    /\ Mounted
    /\ \E k \in 1..Len(annotations) :
          /\ ~InEditMode(annotations[k])
          /\ DeleteAnnotation(annotations[k].id)

\* App.tsx lines 130-146, behind GENERATE JSON (panel lines 604-611): the
\* document is built and handed to the browser as a download, no state setter
\* is called
handleGenerateJSON ==
    /\ Mounted
    /\ UNCHANGED extVars
    /\ ev' = [op |-> "handleGenerateJSON", doc |-> jsonData(videoUrl, annotations)]
    /\ UNCHANGED <<appVars, draftVars, editVars, now>>

\* ------------------------------------------------------ the specification
Next ==
    \/ Tick
    \/ \E u \in InputUrls : setInputUrl(u)
    \/ handleLoadVideo
    \/ \E t \in Times : onTimeUpdate(t)
    \/ \E p \in BOOLEAN : onPauseChange(p)
    \/ handleStartAnnotation
    \/ \E q \in Questions : setAnnotationQuestion(q)
    \/ ClickDone
    \/ ClickEdit
    \/ ChangeEditForm
    \/ ClickSave
    \/ handleCancelEdit
    \/ ClickDelete

Spec == Init /\ [][Next]_vars

\* ------------------------------------------- the draft, every field typed
\* The app with the three draft inputs typed into while composing; the clock,
\* the reported time, the draft type and the typing into the edit form, which
\* the three draft fields do not depend on, stay as they are at construction.
NextDraft ==
    \/ \E u \in InputUrls : setInputUrl(u)
    \/ handleLoadVideo
    \/ handleFileUpload
    \/ handleStartAnnotation
    \/ \E q \in Questions : setAnnotationQuestion(q)
    \/ \E r \in RequirementsTexts : setAnnotationRequirements(r)
    \/ \E d \in Durations : setFeedbackDuration(d)
    \/ ClickDone
    \/ ClickEdit
    \/ ClickSave
    \/ handleCancelEdit
    \/ ClickDelete

SpecDraft == Init /\ [][NextDraft]_vars

\* ------------------------------------- loads while a session is in progress
\* App.tsx lines 36-54, the players left aside; ev keeps how many records
\* were held and the paused flag when the button was pressed
handleLoadVideoLogged ==
    /\ handleLoadVideoCore
    /\ UNCHANGED playerVars
    /\ ev' = [op |-> "handleLoadVideo", held |-> Len(annotations),
              wasPaused |-> isPaused]

\* App.tsx lines 56-67, the players left aside, with the same record in ev
handleFileUploadLogged ==
    /\ handleFileUploadCore
    /\ UNCHANGED playerVars
    /\ ev' = [op |-> "handleFileUpload", held |-> Len(annotations),
              wasPaused |-> isPaused]

\* The app with sources loaded at any moment of a session: the player's
\* reports, the session and the draft's question, requirements and duration,
\* the question typed being "a"; the clock, the draft type and the edit form,
\* which the load handlers neither read nor write, stay as they are at
\* construction.
NextLoad ==
    \/ \E u \in InputUrls : setInputUrl(u)
    \/ handleLoadVideoLogged
    \/ handleFileUploadLogged
    \/ \E t \in Times : onTimeUpdate(t)
    \/ \E p \in BOOLEAN : onPauseChange(p)
    \/ handleStartAnnotation
    \/ setAnnotationQuestion(<<"a">>)
    \/ \E r \in RequirementsTexts : setAnnotationRequirements(r)
    \/ \E d \in Durations : setFeedbackDuration(d)
    \/ ClickDone

SpecLoad == Init /\ [][NextLoad]_vars

\* ------------------------------------------------ VideoPlayer.tsx, native
\* App.tsx lines 254-273: which player the render tree holds
VideoPlayerMounted(url, type) == Truthy(url) /\ type = "direct"

\* the durations a loaded medium reports (line 88)
MediaDurations == {2}

\* lines 33-46, the body of the effect on the element v when the prop
\* isPaused is p and the state hasError is h: pause() stops the element and
\* settles its play() promise, play() leaves a promise to be settled
pauseEffect(v, p, h) ==
    IF h THEN v
    ELSE IF p THEN [v EXCEPT !.playing = FALSE, !.promise = FALSE]
         ELSE [v EXCEPT !.promise = TRUE]

\* VideoPlayer as rendered after a handler of App has run: unmounted, or
\* mounted anew (both effects run), or kept: the effect of lines 23-31 when
\* videoUrl changed (hasError cleared, load() resets the element), then the
\* effect of lines 33-46 when isPaused or hasError changed
VideoPlayerRendered ==
    IF ~VideoPlayerMounted(videoUrl', videoType')
    THEN /\ vp' = VideoPlayerInit
         /\ video' = VideoElementInit
    ELSE IF ~VideoPlayerMounted(videoUrl, videoType)
         THEN /\ vp' = VideoPlayerInit
              /\ video' = pauseEffect(VideoElementInit, isPaused', FALSE)
         ELSE IF videoUrl' # videoUrl
              THEN /\ vp' = [vp EXCEPT !.hasError = FALSE]
                   /\ video' = IF isPaused' # isPaused \/ vp.hasError
                                THEN pauseEffect(VideoElementInit, isPaused', FALSE)
                                ELSE VideoElementInit
              ELSE /\ vp' = vp
                   /\ video' = IF isPaused' # isPaused
                                THEN pauseEffect(video, isPaused', vp.hasError)
                                ELSE video

\* the state no handler of VideoPlayer touches
VideoPlayerFrame ==
    UNCHANGED <<videoUrl, inputUrl, isAnnotating, annotations, draftVars,
                editVars, now, sourceVars, subtitleVars, yt, win>>

\* lines 78-84, on a timeupdate event of the element at time t
handleTimeUpdate(t) ==
    /\ VideoPlayerMounted(videoUrl, videoType)
    /\ vp' = [vp EXCEPT !.currentTime = t]
    /\ currentTime' = t
    /\ ev' = [op |-> "handleTimeUpdate"]
    /\ UNCHANGED <<isPaused, video>>
    /\ VideoPlayerFrame

\* lines 86-90, on loadedmetadata
handleLoadedMetadata(d) ==
    /\ VideoPlayerMounted(videoUrl, videoType)
    /\ vp' = [vp EXCEPT !.duration = d]
    /\ ev' = [op |-> "handleLoadedMetadata"]
    /\ UNCHANGED <<currentTime, isPaused, video>>
    /\ VideoPlayerFrame

\* lines 48-76, on an error event of the element: playback has stopped and
\* a play() promise left is rejected into onPauseChange(true); the effect
\* of lines 33-46 runs with hasError set and calls nothing
handleError ==
    /\ VideoPlayerMounted(videoUrl, videoType)
    /\ vp' = [vp EXCEPT !.hasError = TRUE]
    /\ isPaused' = TRUE
    /\ video' = [video EXCEPT !.playing = FALSE, !.promise = FALSE]
    /\ ev' = [op |-> "handleError"]
    /\ UNCHANGED currentTime
    /\ VideoPlayerFrame

\* lines 92-96 behind the play button, then the effect of lines 33-46
togglePlayPause ==
    /\ VideoPlayerMounted(videoUrl, videoType)
    /\ IF ~vp.hasError
       THEN /\ isPaused' = ~isPaused
            /\ video' = pauseEffect(video, ~isPaused, vp.hasError)
       ELSE UNCHANGED <<isPaused, video>>
    /\ ev' = [op |-> "togglePlayPause"]
    /\ UNCHANGED <<currentTime, vp>>
    /\ VideoPlayerFrame

\* lines 98-104, the progress bar (lines 194-201, from 0 to duration) moved
\* to t
handleSeek(t) ==
    /\ VideoPlayerMounted(videoUrl, videoType)
    /\ t <= vp.duration
    /\ vp' = [vp EXCEPT !.currentTime = t]
    /\ ev' = [op |-> "handleSeek"]
    /\ UNCHANGED <<currentTime, isPaused, video>>
    /\ VideoPlayerFrame

\* line 39: the promise of play() resolves, the element is playing
playResolved ==
    /\ VideoPlayerMounted(videoUrl, videoType)
    /\ video.promise
    /\ video' = [video EXCEPT !.playing = TRUE, !.promise = FALSE]
    /\ ev' = [op |-> "playResolved"]
    /\ UNCHANGED <<currentTime, isPaused, vp>>
    /\ VideoPlayerFrame

\* lines 39-43: the promise of play() is rejected, the catch handler calls
\* onPauseChange(true), and the effect of lines 33-46 runs on the change
playRejected ==
    /\ VideoPlayerMounted(videoUrl, videoType)
    /\ video.promise
    /\ isPaused' = TRUE
    /\ video' = IF ~isPaused
                 THEN pauseEffect([video EXCEPT !.promise = FALSE], TRUE, vp.hasError)
                 ELSE [video EXCEPT !.promise = FALSE]
    /\ ev' = [op |-> "playRejected", wasPaused |-> isPaused]
    /\ UNCHANGED <<currentTime, vp>>
    /\ VideoPlayerFrame

\* the element stops by itself at the end of the medium; lines 155-165 bind
\* onTimeUpdate, onLoadedMetadata and onError only, so no handler runs
ended ==
    /\ VideoPlayerMounted(videoUrl, videoType)
    /\ video.playing
    /\ video' = [video EXCEPT !.playing = FALSE]
    /\ ev' = [op |-> "ended"]
    /\ UNCHANGED <<currentTime, isPaused, vp>>
    /\ VideoPlayerFrame

\* the questions a record can hold
NonBlankQuestions == { q \in Questions : Truthy(Trim(q)) }

\* --------------------------------------------- YouTubePlayer.tsx, hosted
\* App.tsx lines 254-264
YouTubePlayerMounted(url, type) == Truthy(url) /\ type = "youtube"

\* event.data of onStateChange, by the names of YT.PlayerState
PlayerStates == {"PLAYING", "PAUSED", "BUFFERING", "ENDED"}

\* the players not destroyed and the intervals not cleared
LivePlayers(w) == { i \in 1..Len(w.players) : ~w.players[i].destroyed }
LiveIntervals(w) == { i \in 1..Len(w.intervals) : ~w.intervals[i].cleared }

\* the API methods of a player exist once it is ready
Callable(w, i) == w.players[i].ready /\ ~w.players[i].destroyed

\* mutant: the cleanup clears the interval and leaves the player
cleanupKeepsPlayer(y, w) ==
    [w EXCEPT !.intervals =
                  IF y.timeUpdateIntervalRef # 0
                  THEN [@ EXCEPT ![y.timeUpdateIntervalRef].cleared = TRUE]
                  ELSE @]

\* mutant: the cleanup destroys the player and leaves the interval
cleanupKeepsInterval(y, w) ==
    [w EXCEPT !.players =
                  IF y.playerRef # 0
                  THEN [@ EXCEPT ![y.playerRef].destroyed = TRUE]
                  ELSE @]

\* lines 110-118: window after the cleanup of the videoId effect
cleanup(y, w) ==
    [w EXCEPT !.intervals =
                  IF y.timeUpdateIntervalRef # 0
                  THEN [@ EXCEPT ![y.timeUpdateIntervalRef].cleared = TRUE]
                  ELSE @,
              !.players =
                  IF y.playerRef # 0
                  THEN [@ EXCEPT ![y.playerRef].destroyed = TRUE]
                  ELSE @]

\* lines 38-102: the body of window.onYouTubeIframeAPIReady for videoId id,
\* its container in the document
newPlayer(y, w, id) ==
    [yt |-> [y EXCEPT !.playerRef = Len(w.players) + 1],
     win |-> [w EXCEPT !.players =
                           Append(@, [videoId |-> id, ready |-> FALSE,
                                      destroyed |-> FALSE])]]

\* lines 29-108: the body of the videoId effect
videoIdEffect(y, w, id) ==
    LET w1 == [w EXCEPT !.YT = IF @ = "undefined" THEN "loading" ELSE @,
                        !.onYouTubeIframeAPIReady =
                            Some([videoId |-> id, container |-> TRUE])]
    IN  IF w1.YT = "ready" THEN newPlayer(y, w1, id)
        ELSE [yt |-> y, win |-> w1]

\* lines 120-132: the body of the isPaused effect, the prop isPaused being p,
\* left to run by the render after `by`; a call on a player that is not ready
\* throws and the catch logs it
isPausedEffect(y, w, p, by) ==
    IF y.playerRef # 0 /\ y.isReady
    THEN [w EXCEPT !.calls =
                       Append(@, [method |-> IF p THEN "pauseVideo" ELSE "playVideo",
                                  threw |-> ~Callable(w, y.playerRef),
                                  by |-> by])]
    ELSE w

\* the window at the start of a step: no call made yet
noCall(w) == [w EXCEPT !.calls = <<>>]

\* The effect left waiting by the last render runs before the next render
\* starts, on the props and state of the render that left it (which are the
\* current ones, p being isPaused) and on the ref as it is now.
flushPassiveEffects(y, w, p) ==
    IF y.pendingEffect # "none" THEN isPausedEffect(y, w, p, y.pendingEffect)
    ELSE w

\* YouTubePlayer as rendered after a handler of App has run on a click or an
\* input: an effect still waiting runs first; then unmounted (cleanup, the
\* container gone), or mounted anew (both effects run), or kept: cleanup and
\* the videoId effect when videoId changed, then the isPaused effect when
\* isPaused changed.  The effects of such a render run before the handler's
\* event is over, so that none waits afterwards.
YouTubePlayerRendered ==
    IF ~YouTubePlayerMounted(videoUrl', videoType')
    THEN IF YouTubePlayerMounted(videoUrl, videoType)
         THEN /\ yt' = YouTubePlayerInit
              /\ win' = [cleanup(yt, flushPassiveEffects(yt, noCall(win), isPaused))
                            EXCEPT !.onYouTubeIframeAPIReady =
                                Some([videoId |-> @[1].videoId, container |-> FALSE])]
         ELSE UNCHANGED <<yt, win>>
    ELSE IF ~YouTubePlayerMounted(videoUrl, videoType)
         THEN LET r == videoIdEffect(YouTubePlayerInit, noCall(win), youtubeVideoId')
              IN  /\ yt' = r.yt
                  /\ win' = isPausedEffect(r.yt, r.win, isPaused', "handler")
         ELSE LET y0 == [yt EXCEPT !.pendingEffect = "none"]
                  w0 == flushPassiveEffects(yt, noCall(win), isPaused)
                  r == IF youtubeVideoId' # youtubeVideoId
                       THEN videoIdEffect(y0, cleanup(y0, w0), youtubeVideoId')
                       ELSE [yt |-> y0, win |-> w0]
              IN  /\ yt' = r.yt
                  /\ win' = IF isPaused' # isPaused
                             THEN isPausedEffect(r.yt, r.win, isPaused', "handler")
                             ELSE r.win

\* App.tsx lines 254-273 rendered after a handler of App has run
PlayersRendered == VideoPlayerRendered /\ YouTubePlayerRendered

\* the state no callback of YouTubePlayer touches
YouTubePlayerFrame ==
    UNCHANGED <<videoUrl, inputUrl, isAnnotating, annotations, draftVars,
                editVars, now, sourceVars, subtitleVars, vp, video>>

\* the IFrame API has loaded and calls window.onYouTubeIframeAPIReady
\* (lines 37-103): a player is made when the container is in the document;
\* no state is set, so nothing is rendered and a waiting effect waits on
onYouTubeIframeAPIReady ==
    /\ win.YT = "loading"
    /\ LET w == noCall([win EXCEPT !.YT = "ready"])
           cb == win.onYouTubeIframeAPIReady
       IN  IF cb # None /\ cb[1].container
           THEN /\ yt' = newPlayer(yt, w, cb[1].videoId).yt
                /\ win' = newPlayer(yt, w, cb[1].videoId).win
           ELSE /\ yt' = yt
                /\ win' = w
    /\ ev' = [op |-> "onYouTubeIframeAPIReady"]
    /\ UNCHANGED <<currentTime, isPaused>>
    /\ YouTubePlayerFrame

\* The callbacks of a player and of its interval are no click or input:
\* the render they cause leaves its effects to run later, in a step of
\* their own (passiveEffects) or at the start of the next render.  A
\* callback that sets no state to a new value causes no render.

\* lines 51-70: player i, not destroyed, reports ready; the interval is set;
\* the isPaused effect is left to run when isReady changed
onReady(i) ==
    /\ YouTubePlayerMounted(videoUrl, videoType)
    /\ i \in LivePlayers(win)
    /\ ~win.players[i].ready
    /\ LET rendered == ~yt.isReady \/ yt.hasError
           w == [noCall(win) EXCEPT
                     !.players[i].ready = TRUE,
                     !.intervals = Append(@, [player |-> i, cleared |-> FALSE])]
       IN  /\ yt' = [yt EXCEPT !.isReady = TRUE, !.hasError = FALSE,
                               !.timeUpdateIntervalRef = Len(win.intervals) + 1,
                               !.pendingEffect = IF ~yt.isReady THEN "onReady"
                                                 ELSE IF rendered THEN "none" ELSE @]
           /\ win' = IF rendered THEN flushPassiveEffects(yt, w, isPaused) ELSE w
    /\ ev' = [op |-> "onReady", player |-> i]
    /\ UNCHANGED <<currentTime, isPaused>>
    /\ YouTubePlayerFrame

\* lines 71-94: player i, not destroyed, reports an error; the isPaused
\* effect is left to run when isReady changed
onError(i) ==
    /\ YouTubePlayerMounted(videoUrl, videoType)
    /\ i \in LivePlayers(win)
    /\ LET rendered == ~yt.hasError \/ yt.isReady
       IN  /\ yt' = [yt EXCEPT !.hasError = TRUE, !.isReady = FALSE,
                               !.pendingEffect = IF yt.isReady THEN "onError"
                                                 ELSE IF rendered THEN "none" ELSE @]
           /\ win' = IF rendered THEN flushPassiveEffects(yt, noCall(win), isPaused)
                      ELSE noCall(win)
    /\ ev' = [op |-> "onError", player |-> i]
    /\ UNCHANGED <<currentTime, isPaused>>
    /\ YouTubePlayerFrame

\* lines 95-99: player i, ready, reports the state data; App stores the
\* flag (line 263) and the isPaused effect is left to run when it changed
onStateChange(i, data) ==
    /\ YouTubePlayerMounted(videoUrl, videoType)
    /\ i \in LivePlayers(win)
    /\ win.players[i].ready
    /\ isPaused' = (data # "PLAYING")
    /\ IF isPaused' # isPaused
       THEN /\ yt' = [yt EXCEPT !.pendingEffect = "onStateChange"]
            /\ win' = flushPassiveEffects(yt, noCall(win), isPaused)
       ELSE /\ yt' = yt
            /\ win' = noCall(win)
    /\ ev' = [op |-> "onStateChange", player |-> i, data |-> data]
    /\ UNCHANGED currentTime
    /\ YouTubePlayerFrame

\* lines 57-69: interval i, not cleared, fires; the player in playerRef is
\* asked for its time t when it has the method
intervalFires(i, t) ==
    /\ i \in LiveIntervals(win)
    /\ IF yt.playerRef # 0 /\ Callable(win, yt.playerRef)
       THEN LET rendered == t # yt.currentTime \/ t # currentTime
            IN  /\ yt' = [yt EXCEPT !.currentTime = t,
                                    !.pendingEffect = IF rendered THEN "none" ELSE @]
                /\ currentTime' = t
                /\ win' = IF rendered
                           THEN flushPassiveEffects(yt, noCall(win), isPaused)
                           ELSE noCall(win)
       ELSE /\ UNCHANGED <<yt, currentTime>>
            /\ win' = noCall(win)
    /\ ev' = [op |-> "interval", player |-> win.intervals[i].player]
    /\ UNCHANGED isPaused
    /\ YouTubePlayerFrame

\* the effect left waiting by the render of a callback runs on its own
passiveEffects ==
    /\ YouTubePlayerMounted(videoUrl, videoType)
    /\ yt.pendingEffect # "none"
    /\ yt' = [yt EXCEPT !.pendingEffect = "none"]
    /\ win' = flushPassiveEffects(yt, noCall(win), isPaused)
    /\ ev' = [op |-> "passiveEffects"]
    /\ UNCHANGED <<currentTime, isPaused>>
    /\ YouTubePlayerFrame

\* ------------------------------------ App with its players rendered
\* App.tsx lines 36-54 and the render of the players that follows; a blank
\* URL sets no state and nothing is rendered
handleLoadVideoRendered ==
    /\ Len(win.players) < MaxPlayers
    /\ handleLoadVideoCore
    /\ IF Truthy(Trim(inputUrl)) THEN PlayersRendered ELSE UNCHANGED playerVars
    /\ ev' = [op |-> "handleLoadVideo", changed |-> videoUrl' # videoUrl]

\* App.tsx lines 56-67 and the render of the players that follows
handleFileUploadRendered ==
    /\ Len(win.players) < MaxPlayers
    /\ handleFileUploadCore
    /\ PlayersRendered
    /\ ev' = [op |-> "handleFileUpload", changed |-> videoUrl' # videoUrl]

\* App.tsx lines 101-104 and the render of the players that follows
handleStartAnnotationRendered ==
    /\ handleStartAnnotationCore
    /\ PlayersRendered

\* the DONE button (panel lines 458-464) and the render of the players; a
\* refused commit sets no state and nothing is rendered
ClickDoneRendered ==
    /\ Mounted
    /\ isAnnotating
    /\ Len(annotations) < MaxAnnotations
    /\ handleDoneCore(annotationType, annotationQuestion, annotationRequirements,
                      feedbackDuration, Some(currentTime))
    /\ IF CanCommit(annotationQuestion) THEN PlayersRendered
       ELSE UNCHANGED playerVars

\* App.tsx line 192 and the render that follows when the text changed
setInputUrlRendered(u) ==
    /\ inputUrl' = u
    /\ UNCHANGED <<sourceVars, subtitleVars>>
    /\ UNCHANGED <<videoUrl, currentTime, isPaused, isAnnotating, annotations,
                   draftVars, editVars, now>>
    /\ IF u # inputUrl THEN PlayersRendered ELSE UNCHANGED playerVars
    /\ ev' = Other

\* panel line 414 and the render that follows when the text changed
setAnnotationQuestionRendered(q) ==
    /\ Mounted
    /\ isAnnotating
    /\ annotationQuestion' = q
    /\ UNCHANGED <<sourceVars, subtitleVars>>
    /\ UNCHANGED <<appVars, annotationType, annotationRequirements,
                   feedbackDuration, editVars, now>>
    /\ IF q # annotationQuestion THEN PlayersRendered ELSE UNCHANGED playerVars
    /\ ev' = Other

\* the app on direct sources, with VideoPlayer and its element
NextVideoPlayer ==
    \/ \E u \in InputUrls : setInputUrl(u)
    \/ handleLoadVideoRendered
    \/ handleFileUploadRendered
    \/ handleStartAnnotationRendered
    \/ \E q \in Questions : setAnnotationQuestion(q)
    \/ ClickDoneRendered
    \/ togglePlayPause
    \/ \E t \in Times : handleSeek(t)
    \/ \E t \in Times : handleTimeUpdate(t)
    \/ \E d \in MediaDurations : handleLoadedMetadata(d)
    \/ handleError
    \/ playResolved
    \/ playRejected
    \/ ended

SpecVideoPlayer == Init /\ [][NextVideoPlayer]_vars

\* a YouTube link (youtu.be/x), a bare video id and a direct source
YouTubeInputUrls ==
    { ShortMarker \o <<"x">>,
      <<"A", "b", "c", "d", "e", "f", "g", "0", "1", "_", "-">>,
      <<"u">> }

\* the app on YouTube sources, with YouTubePlayer, the IFrame API and its
\* players; a direct source takes YouTubePlayer out of the tree
NextYouTubePlayer ==
    \/ \E u \in YouTubeInputUrls : setInputUrlRendered(u)
    \/ handleLoadVideoRendered
    \/ handleStartAnnotationRendered
    \/ setAnnotationQuestionRendered(<<"a">>)
    \/ ClickDoneRendered
    \/ onYouTubeIframeAPIReady
    \/ \E i \in 1..MaxPlayers : onReady(i)
    \/ \E i \in 1..MaxPlayers : onError(i)
    \/ \E i \in 1..MaxPlayers, data \in PlayerStates : onStateChange(i, data)
    \/ \E i \in 1..MaxPlayers, t \in Times : intervalFires(i, t)
    \/ passiveEffects

SpecYouTubePlayer == Init /\ [][NextYouTubePlayer]_vars

\* ------------------------------------------------- the subtitle uploads
\* the file names a.srt, (U+00C9).SRT, c.Vtt and d.txt
SubtitleFiles ==
    { <<"a", ".", "s", "r", "t">>, <<"U+00C9", ".", "S", "R", "T">>,
      <<"c", ".", "V", "t", "t">>, <<"d", ".", "t", "x", "t">> }

\* lines 75, 82: String.prototype.endsWith
endsWith(s, suffix) ==
    /\ Len(suffix) <= Len(s)
    /\ SubSeq(s, Len(s) - Len(suffix) + 1, Len(s)) = suffix

\* lines 72, 75: the endings of file.name whose lower-case form is '.srt'.
\* String.prototype.toLowerCase lowers a string code point by code point:
\* the capitals S, R and T become s, r and t, the full stop and the small
\* letters stay, and no other code point, whatever stands around it, lowers
\* into a string that holds '.', 's', 'r' or 't'.
SrtEndings ==
    { <<".", s, r, t>> : s \in {"s", "S"}, r \in {"r", "R"}, t \in {"t", "T"} }

\* lines 72, 82: the endings of file.name whose lower-case form is '.vtt'
\* (likewise, V and v are the only code points that lower into 'v')
VttEndings ==
    { <<".", v, t, u>> : v \in {"v", "V"}, t \in {"t", "T"}, u \in {"t", "T"} }

\* lines 72, 75: file.name.toLowerCase().endsWith('.srt')
fileNameEndsWithSrt(name) == \E e \in SrtEndings : endsWith(name, e)

\* lines 72, 82: file.name.toLowerCase().endsWith('.vtt')
fileNameEndsWithVtt(name) == \E e \in VttEndings : endsWith(name, e)

\* lines 79, 84: the object URL made for the k-th chosen file
createObjectURL(k) == <<"b", "l", "o", "b", ":">> \o toString(k)

\* App.tsx lines 69-91 up to the first await: the k-th file is chosen in the
\* subtitle input (shown for a direct source, line 224). A .srt file is left
\* being read, a .vtt file is stored at once, any other is refused (alert).
handleSubtitleUpload(file) ==
    /\ Mounted
    /\ videoType = "direct"
    /\ Len(chosen) < MaxUploads
    /\ chosen' = Append(chosen, file)
    /\ IF fileNameEndsWithSrt(file)
       THEN /\ reads' = reads \cup {Len(chosen) + 1}
            /\ UNCHANGED <<subtitleUrl, subtitleFileName>>
       ELSE IF fileNameEndsWithVtt(file)
            THEN /\ subtitleUrl' = createObjectURL(Len(chosen) + 1)
                 /\ subtitleFileName' = file
                 /\ UNCHANGED reads
            ELSE UNCHANGED <<subtitleUrl, subtitleFileName, reads>>
    /\ ev' = [op |-> "handleSubtitleUpload", file |-> Len(chosen) + 1]
    /\ UNCHANGED <<appVars, draftVars, editVars, now, sourceVars, playerVars, rejected>>

\* App.tsx lines 76-81: file.text() of the k-th chosen file is fulfilled and
\* the rest of that call of handleSubtitleUpload runs
fileTextResolved(k) ==
    /\ k \in reads
    /\ reads' = reads \ {k}
    /\ subtitleUrl' = createObjectURL(k)
    /\ subtitleFileName' = chosen[k]
    /\ ev' = [op |-> "fileTextResolved", file |-> k]
    /\ UNCHANGED <<appVars, draftVars, editVars, now, sourceVars, playerVars, chosen, rejected>>

\* App.tsx line 76: file.text() of the k-th chosen file is rejected (the file
\* can no longer be read). The await throws, nothing catches it, and that
\* call of handleSubtitleUpload ends there: lines 77-81 do not run.
fileTextRejected(k) ==
    /\ k \in reads
    /\ reads' = reads \ {k}
    /\ rejected' = rejected \cup {k}
    /\ ev' = [op |-> "fileTextRejected", file |-> k]
    /\ UNCHANGED <<appVars, draftVars, editVars, now, sourceVars, playerVars,
                   subtitleUrl, subtitleFileName, chosen>>

NextSubtitles ==
    \/ \E u \in InputUrls : setInputUrl(u)
    \/ handleLoadVideo
    \/ handleFileUpload
    \/ \E f \in SubtitleFiles : handleSubtitleUpload(f)
    \/ \E k \in 1..MaxUploads : fileTextResolved(k)
    \/ \E k \in 1..MaxUploads : fileTextRejected(k)

SpecSubtitles == Init /\ [][NextSubtitles]_vars

\* ---------------------------------- the handlers applied to bounded inputs
Ids == { toString(c) : c \in 0..MaxClock }

\* records as a commit with the default requirements and duration stores them
StoredRecords ==
    [id : Ids, timestamp : Times, type : AnnotationTypes,
     question : NonBlankQuestions, requirements : { <<>> },
     feedbackDuration : {DefaultFeedbackDuration}]

Collections == UNION { [1..n -> StoredRecords] : n \in 0..MaxAnnotations }

EditForms ==
    [type : AnnotationTypes, question : Questions,
     requirements : RequirementsTexts, feedbackDuration : Durations]

InitOps ==
    /\ videoUrl = <<"u">>
    /\ inputUrl = <<"u">>
    /\ currentTime \in Times
    /\ isPaused = TRUE
    /\ isAnnotating = TRUE
    /\ annotations \in Collections
    /\ annotationType = "VLM"
    /\ annotationQuestion = <<>>
    /\ annotationRequirements = <<>>
    /\ feedbackDuration = DefaultFeedbackDuration
    /\ editingId = NoId
    /\ editForm = None
    /\ now \in 0..MaxClock
    /\ ev = Other
    /\ videoType = "direct"
    /\ youtubeVideoId = <<>>
    /\ videoFiles = 0
    /\ subtitleUrl = <<>>
    /\ subtitleFileName = <<>>
    /\ chosen = <<>>
    /\ reads = {}
    /\ rejected = {}
    /\ vp = VideoPlayerInit
    /\ video = VideoElementInit
    /\ yt = YouTubePlayerInit
    /\ win = WindowInit

\* handleDone on any draft, with the optional currentTime prop given or not
\* (panel line 305: currentTime?: number)
OpDone ==
    /\ ev = Other
    /\ Len(annotations) < MaxAnnotations
    /\ \E type \in AnnotationTypes, q \in Questions, r \in RequirementsTexts,
          d \in Durations, m \in {None} \cup { Some(t) : t \in Times } :
          handleDone(type, q, r, d, m)

\* handleSaveEdit of any record object, in the collection or not, with any form
OpSaveEdit ==
    /\ ev = Other
    /\ \E a \in [id : Ids, timestamp : Times], f \in {None} \cup { Some(x) : x \in EditForms } :
          handleSaveEdit(a, f)

\* handleDeleteAnnotation of any id, once or again
OpDelete ==
    /\ ev.op \in {"-", "handleDeleteAnnotation"}
    /\ \E id \in Ids : DeleteAnnotation(id)

\* handleGenerateJSON on any collection
OpGenerateJSON ==
    /\ ev = Other
    /\ handleGenerateJSON

NextOps == OpDone \/ OpSaveEdit \/ OpDelete \/ OpGenerateJSON

SpecOps == InitOps /\ [][NextOps]_vars

\* ================================================================ claims

\* C1: from Composing, a commit whose question is non-empty after trimming
\* appends exactly one record at the end of the collection (the records
\* already there keep their place and content, the new one carries the
\* draft), the length grows by 1, the session is Idle and paused is false.
C1_CommitAppendsOne ==
    [][ (ClickDone /\ Trim(annotationQuestion) # <<>>) =>
          /\ Len(annotations') = Len(annotations) + 1
          /\ \A k \in 1..Len(annotations) : annotations'[k] = annotations[k]
          /\ Last(annotations').type = annotationType
          /\ Last(annotations').question = annotationQuestion
          /\ Last(annotations').requirements = annotationRequirements
          /\ Last(annotations').feedbackDuration = feedbackDuration
          /\ ~isAnnotating'
          /\ ~isPaused' ]_vars

\* a second commit has been accepted, behind a record that was already there
C1_Witness ==
    /\ ev.op = "handleDone"
    /\ Trim(ev.question) # <<>>
    /\ Len(annotations) = 2
    /\ ~isAnnotating
    /\ ~isPaused

\* C2: a commit attempted while the draft question is empty or only white
\* space appends nothing: the collection, the paused flag and the draft are
\* unchanged and the session stays Composing.
C2_BlankCommitRefused ==
    [][ (ClickDone /\ Trim(annotationQuestion) = <<>>) =>
          /\ UNCHANGED <<annotations, isPaused, draftVars>>
          /\ isAnnotating' ]_vars

\* DONE has run on a draft question of white space only, with a record present
C2_Witness ==
    /\ ev.op = "handleDone"
    /\ ev.question = <<" ">>
    /\ annotationQuestion = <<" ">>
    /\ isAnnotating
    /\ Len(annotations) = 1

\* C3: right after START the paused flag is true and the session is
\* Composing, whatever the paused flag was before.
C3_StartForcesPause ==
    ev.op = "handleStartAnnotation" => (isPaused /\ isAnnotating)

\* START has run while the coordinator held paused = false
C3_Witness ==
    /\ ev.op = "handleStartAnnotation"
    /\ ~ev.wasPaused
    /\ isPaused
    /\ isAnnotating

\* C4: the record of an accepted commit carries the coordinator's
\* currentTime when no explicit timestamp is given, and the explicit
\* timestamp when one is given.
C4_TimestampResolved ==
    (ev.op = "handleDone" /\ Trim(ev.question) # <<>>) =>
        Last(annotations).timestamp =
            IF ev.currentTimeProp = None THEN currentTime
            ELSE ev.currentTimeProp[1]

\* a commit without explicit timestamp has stored the currentTime 1
C4_Witness ==
    /\ ev.op = "handleDone"
    /\ Trim(ev.question) # <<>>
    /\ ev.currentTimeProp = None
    /\ currentTime = 1
    /\ Last(annotations).timestamp = 1

\* C5: no two records of the collection have the same id.
C5_UniqueIds ==
    \A i, j \in 1..Len(annotations) :
        i # j => annotations[i].id # annotations[j].id

\* C6: every record of the collection has a question that is non-empty
\* after trimming, whatever commits and edit-commits came before.
C6_QuestionsNonBlank ==
    \A k \in 1..Len(annotations) : Trim(annotations[k].question) # <<>>

\* Save has run on an edit form whose question is white space only
C6_Witness ==
    /\ ev.op = "handleSaveEdit"
    /\ ev.form # None
    /\ ev.form[1].question = <<" ">>
    /\ editForm = ev.form
    /\ HasId(annotations, ev.id)

\* the rank of position k among the positions of `anns` whose id is not `id`
RankAmongKept(anns, id, k) ==
    Cardinality({ j \in 1..k : anns[j].id # id })

\* C7: delete(id) removes the records with that id and keeps every other
\* record, in the same relative order; on an id that is not in the
\* collection it changes nothing, and a second delete(id) changes nothing.
C7_DeleteRemovesMatching ==
    [][ ev'.op = "handleDeleteAnnotation" =>
          /\ Len(annotations') = RankAmongKept(annotations, ev'.id, Len(annotations))
          /\ \A k \in 1..Len(annotations) :
                annotations[k].id # ev'.id =>
                    annotations'[RankAmongKept(annotations, ev'.id, k)] = annotations[k]
          /\ ~HasId(annotations', ev'.id)
          /\ (~HasId(annotations, ev'.id) => annotations' = annotations)
          /\ handleDeleteAnnotation(annotations', ev'.id) = annotations' ]_vars

\* delete has run on an id that no record of a non-empty collection has
C7_Witness ==
    /\ ev.op = "handleDeleteAnnotation"
    /\ ~ev.present
    /\ annotations # <<>>

\* C8: update(id, r) with a question that is non-empty after trimming, on an
\* id of the collection, gives the records with that id the type, question,
\* requirements and feedbackDuration of r, keeps their id and place, leaves
\* every other record as it was and the length unchanged.
C8_UpdateReplacesFields ==
    [][ ( /\ ev'.op = "handleSaveEdit"
          /\ HasId(annotations, ev'.id)
          /\ ev'.form # None
          /\ Trim(ev'.form[1].question) # <<>> ) =>
          /\ Len(annotations') = Len(annotations)
          /\ \A k \in 1..Len(annotations) :
                IF annotations[k].id = ev'.id
                THEN /\ annotations'[k].id = ev'.id
                     /\ annotations'[k].type = ev'.form[1].type
                     /\ annotations'[k].question = ev'.form[1].question
                     /\ annotations'[k].requirements = ev'.form[1].requirements
                     /\ annotations'[k].feedbackDuration = ev'.form[1].feedbackDuration
                ELSE annotations'[k] = annotations[k] ]_vars

\* an update has rewritten every field of one record, next to a record of
\* another id
C8_Witness ==
    /\ ev.op = "handleSaveEdit"
    /\ ev.present
    /\ ev.form # None
    /\ ev.form[1] = [type |-> "LLM", question |-> <<"\t", "a">>,
                     requirements |-> <<"r">>, feedbackDuration |-> 3]
    /\ Len(annotations) = 2
    /\ annotations[1].id = ev.id
    /\ annotations[2].id # ev.id
    /\ FormOf(annotations[1]) = ev.form[1]

\* C9: update(id, replacement) changes nothing in the collection when no
\* record has that id, or when the replacement's question is empty after
\* trimming (or there is no edit form).
C9_UpdateNoOp ==
    [][ ( /\ ev'.op = "handleSaveEdit"
          /\ \/ ~HasId(annotations, ev'.id)
             \/ ev'.form = None
             \/ Trim(ev'.form[1].question) = <<>> ) =>
          annotations' = annotations ]_vars

\* an update with a valid question has run on an id that no record of a
\* non-empty collection has
C9_Witness ==
    /\ ev.op = "handleSaveEdit"
    /\ ~ev.present
    /\ ev.form # None
    /\ Trim(ev.form[1].question) # <<>>
    /\ annotations # <<>>

\* C10: an edit-commit changes no record's timestamp.
C10_EditKeepsTimestamps ==
    [][ ev'.op = "handleSaveEdit" =>
          /\ Len(annotations') = Len(annotations)
          /\ \A k \in 1..Len(annotations) :
                annotations'[k].timestamp = annotations[k].timestamp ]_vars


\* C11: the exported document has totalAnnotations equal to the length of the
\* live collection and an annotations list of that length whose k-th entry
\* carries the timestamp, type, question, requirements and feedbackDuration
\* of the k-th live record and has no id field; producing it leaves the
\* collection, the session state and the paused flag unchanged.
C11_ExportMirrorsCollection ==
    [][ ev'.op = "handleGenerateJSON" =>
          /\ ev'.doc.totalAnnotations = Len(annotations)
          /\ Len(ev'.doc.annotations) = Len(annotations)
          /\ \A k \in 1..Len(annotations) :
                /\ DOMAIN ev'.doc.annotations[k] =
                     {"timestamp", "type", "question", "requirements",
                      "feedbackDuration"}
                /\ \A f \in DOMAIN ev'.doc.annotations[k] :
                      ev'.doc.annotations[k][f] = annotations[k][f]
          /\ UNCHANGED <<annotations, isAnnotating, isPaused>> ]_vars

\* a collection of two different records has been exported
C11_Witness ==
    /\ ev.op = "handleGenerateJSON"
    /\ Len(annotations) = 2
    /\ annotations[1] # annotations[2]
    /\ ev.doc.totalAnnotations = 2

\* C19: start takes effect only from Idle and commit only from Composing:
\* over every sequence of UI and engine events no start happens while the
\* session is already Composing, and no record is appended while it is Idle.
C19_StartIdleCommitComposing ==
    [][ /\ (ev'.op = "handleStartAnnotation" => (~isAnnotating /\ isAnnotating'))
        /\ (Len(annotations') > Len(annotations) => (isAnnotating /\ ~isAnnotating'))
      ]_vars

\* a start has been taken after an earlier session ended in a commit
C19_Witness ==
    /\ ev.op = "handleStartAnnotation"
    /\ isAnnotating
    /\ Len(annotations) = 1

\* C20: immediately after every start the draft holds no stale content: the
\* draft question and requirements are empty and the draft feedback duration
\* is the default 6, whatever starts, commits, refused commits, edits,
\* deletions and source loads came before.
C20_StartFindsCleanDraft ==
    ev.op = "handleStartAnnotation" =>
        /\ annotationQuestion = <<>>
        /\ annotationRequirements = <<>>
        /\ feedbackDuration = DefaultFeedbackDuration

\* a start that follows a commit of a draft typed in all three fields
C20_Witness ==
    /\ ev.op = "handleStartAnnotation"
    /\ Len(annotations) > 0
    /\ Last(annotations).requirements # <<>>
    /\ Last(annotations).feedbackDuration # DefaultFeedbackDuration

\* the files of the accepted kinds among those chosen, less those whose
\* read failed
AcceptedUploads ==
    { k \in 1..Len(chosen) \ rejected : \/ fileNameEndsWithSrt(chosen[k])
                                         \/ fileNameEndsWithVtt(chosen[k]) }

\* C18: when several accepted subtitle files are uploaded in sequence, once
\* all reads have completed the subtitle URL and file name are those of the
\* most recently uploaded file, in every interleaving of the read completions
\* (a file whose read failed is no completed upload and is not counted).
C18_LatestUploadWins ==
    (reads = {} /\ AcceptedUploads # {}) =>
        LET last == CHOOSE k \in AcceptedUploads : \A j \in AcceptedUploads : j <= k
        IN  /\ subtitleFileName = chosen[last]
            /\ subtitleUrl = createObjectURL(last)

\* C12: when the engine changes its play state by itself and the coordinator
\* is told, the coordinator only updates its paused flag and no pause or
\* resume request goes back to the engine; in particular a report of a
\* non-playing state while paused is false never results in a pause command.
C12_ReportNotEchoed ==
    \A k \in 1..Len(win.calls) : win.calls[k].by # "onStateChange"

\* C13: on an engine error, with either backend, the coordinator's paused
\* flag becomes true and an error state is exposed, and no play request is
\* issued afterwards as an automatic retry.
C13_ErrorForcesPause ==
    [][ /\ ev'.op = "onError" => (isPaused' /\ yt'.hasError)
        /\ \A k \in 1..Len(win'.calls) :
               ~(win'.calls[k].by = "onError" /\ win'.calls[k].method = "playVideo")
      ]_vars

\* C14: after the engine stops or starts playing by itself, the paused flag
\* of the coordinator equals the engine's actual state, with either backend:
\* no engine at rest under paused = false, no engine playing under
\* paused = true.
C14_FlagMirrorsEngine ==
    ev.op = "ended" => (isPaused = ~video.playing)

\* C15: when a resume request is not honoured because the play call fails,
\* the coordinator's paused flag ends up true again, and the failure changes
\* nothing else.
C15_FailedResumeReverts ==
    \A k \in 1..Len(win.calls) :
        (win.calls[k].method = "playVideo" /\ win.calls[k].threw) => isPaused

\* C16: whenever the source identifier changes, all cached playback state is
\* back at its initial values before the new source reports anything: the
\* coordinator's currentTime and the player's displayed time are 0, the
\* duration is 0, and the error flag is cleared.
C16_SourceChangeResets ==
    (ev.op \in {"handleLoadVideo", "handleFileUpload"} /\ ev.changed) =>
        /\ currentTime = 0
        /\ vp.currentTime = 0
        /\ vp.duration = 0
        /\ ~vp.hasError

\* C17: with the hosted backend, when the video id changes or the player is
\* taken out of the tree, the previous player is destroyed and its interval
\* cleared as part of binding the new source, in every ordering of the API
\* becoming ready, players becoming ready and source changes: never two live
\* players or two live intervals, every live interval was set by the player
\* now in playerRef, and no interval of a superseded player fires.
C17_OnePlayerOneInterval ==
    /\ Cardinality(LivePlayers(win)) <= 1
    /\ Cardinality(LiveIntervals(win)) <= 1
    /\ \A i \in LiveIntervals(win) :
          /\ win.intervals[i].player = yt.playerRef
          /\ win.intervals[i].player \in LivePlayers(win)
    /\ ev.op = "interval" =>
          (ev.player = yt.playerRef /\ ev.player \in LivePlayers(win))

\* the interval of a second player has fired, the first player having been
\* ready, with its own interval, when the video id changed
C17_Witness ==
    /\ ev.op = "interval"
    /\ ev.player = 2
    /\ Len(win.players) = 2
    /\ win.players[1].destroyed
    /\ win.players[1].ready
    /\ win.players[1].videoId # win.players[2].videoId
    /\ Len(win.intervals) = 2
    /\ win.intervals[1].cleared

\* C21: a load with a non-blank URL and an upload of a video file empty the
\* collection and set paused to true, and leave the session state, the four
\* draft fields and the coordinator's currentTime as they were; a load with
\* an empty or whitespace-only URL changes nothing in the app.
C21_LoadEmptiesKeepsSession ==
    [][ /\ ( \/ (ev'.op = "handleLoadVideo" /\ Truthy(Trim(inputUrl)))
             \/ ev'.op = "handleFileUpload" ) =>
              /\ annotations' = <<>>
              /\ isPaused' = TRUE
              /\ UNCHANGED <<isAnnotating, draftVars, currentTime>>
        /\ (ev'.op = "handleLoadVideo" /\ ~Truthy(Trim(inputUrl))) =>
              UNCHANGED <<appVars, draftVars, editVars, extVars>>
      ]_vars

\* a URL was loaded while composing, the player running at a time past 0,
\* a record in the collection, and question, requirements and duration of
\* the draft typed into
C21_Witness ==
    /\ ev.op = "handleLoadVideo"
    /\ ev.held > 0
    /\ ~ev.wasPaused
    /\ annotations = <<>>
    /\ isPaused
    /\ isAnnotating
    /\ currentTime # 0
    /\ Truthy(Trim(annotationQuestion))
    /\ annotationRequirements # <<>>
    /\ feedbackDuration # DefaultFeedbackDuration
====
